---- MODULE Spec2Model ----
(***************************************************************************)
(* Model of internal/driver/webhandler.go: the profile cache, the capture  *)
(* controller (createProfile), the handlers that use them, and the flame   *)
(* tree the flamegraph handler builds of a report's graph.                 *)
(*                                                                         *)
(* Every request is served by its own goroutine.  A goroutine's position   *)
(* is pc[p]; one action is one step between two points where another       *)
(* goroutine can observe or change h.profCache, h.inProfiling, h.mtx, the  *)
(* CPU profiler of runtime/pprof or the clock.  h.inProfiling is written   *)
(* outside h.mtx; a bool store is a single machine store, so the racing    *)
(* accesses are modelled as separate steps in every interleaving.          *)
(*                                                                         *)
(* Strings are sequences of byte values so that Go's string comparison     *)
(* (bytewise lexicographic) and the formatting of profile names are        *)
(* computed, not assumed.  Durations and the clock are whole seconds.      *)
(***************************************************************************)
EXTENDS Integers, Sequences, FiniteSets, TLC

(* ------------------------------ bounds --------------------------------- *)
\* requests accepted over a run
MaxRequests == 2
\* the last second of the clock while requests run concurrently
MaxTime == 3
\* the last second of the clock while requests run one at a time
MaxSeqTime == 6
\* capture requests accepted over a run of capture requests only
MaxCaptures == 3
\* the nodes and the edges of a graph handed to the flamegraph handler
MaxNodes == 3
MaxEdges == 3

\* the goroutines that serve requests, and no goroutine
Procs == {1, 2}
NoProc == 0

(* ------------------------------ strings -------------------------------- *)
Empty == << >>
\* "cpu"
ProfileTypeCPU == <<99, 112, 117>>
\* "heap"
ProfileTypeHeap == <<104, 101, 97, 112>>
\* "zz": a pt value that names no profile type
BogusType == <<122, 122>>
\* "x": a pn value that names no cached profile, an sd value that is no duration
Junk == <<120>>

defaultProfileType == ProfileTypeCPU
defaultSamplePeriod == 5
maxSamplePeriod == 60

\* Go's < on strings: bytewise lexicographic, a proper prefix is smaller.
RECURSIVE StrLess(_, _)
StrLess(a, b) ==
    IF b = Empty THEN FALSE
    ELSE IF a = Empty THEN TRUE
    ELSE IF a[1] # b[1] THEN a[1] < b[1]
    ELSE StrLess(Tail(a), Tail(b))

\* decimal digits of a natural number
RECURSIVE Itoa(_)
Itoa(n) == IF n < 10 THEN <<48 + n>> ELSE Itoa(n \div 10) \o <<48 + (n % 10)>>

\* fmt "%.0f" of a whole number of seconds
FormatSeconds(d) == IF d < 0 THEN <<45>> \o Itoa(0 - d) ELSE Itoa(d)

\* two digits, zero padded
Pad2(n) == <<48 + ((n \div 10) % 10), 48 + (n % 10)>>

\* t.Format("2006-01-02T15:04:05") for the instant t seconds into the hour:
\* the minutes and seconds fields "04:05"; the date and hour fields before
\* them are the same for every instant of the model and are left out.
TimeFormat(t) == Pad2(t \div 60) \o <<58>> \o Pad2(t % 60)

\* "Seconds-"
SecondsDash == <<83, 101, 99, 111, 110, 100, 115, 45>>

profileName(profType, period, t) ==
    TimeFormat(t) \o <<45>> \o FormatSeconds(period) \o SecondsDash \o profType

(* --------------------------- query parsing ----------------------------- *)
IsDigit(c) == c \in 48..57

\* value of a non-empty sequence of digits
RECURSIVE Atoi(_)
Atoi(s) == IF Len(s) = 1 THEN s[1] - 48
           ELSE 10 * Atoi(SubSeq(s, 1, Len(s) - 1)) + (s[Len(s)] - 48)

\* seconds in a unit of time.ParseDuration, 0 for no unit ("s", "m", "h")
UnitSeconds(c) == CASE c = 115 -> 1 [] c = 109 -> 60 [] c = 104 -> 3600 [] OTHER -> 0

\* time.ParseDuration on [sign] digits unit, and on "0"; every other string
\* of the model's inputs is an error.  The result is [ok, d] with d in seconds.
ParseDuration(s) ==
    LET neg  == s # Empty /\ s[1] = 45
        body == IF s # Empty /\ s[1] \in {43, 45} THEN Tail(s) ELSE s
        n    == Len(body)
    IN  IF body = <<48>> THEN [ok |-> TRUE, d |-> 0]
        ELSE IF n < 2 \/ UnitSeconds(body[n]) = 0
                \/ \E i \in 1..(n - 1) : ~IsDigit(body[i])
             THEN [ok |-> FALSE, d |-> 0]
        ELSE LET v == Atoi(SubSeq(body, 1, n - 1)) * UnitSeconds(body[n])
             IN  [ok |-> TRUE, d |-> IF neg THEN 0 - v ELSE v]

\* the query value handed on as it is, no default for a missing one
getProfileTypeNoDefault(pt) == pt

getProfileTypeFromQuery(pt) == IF pt = Empty THEN ProfileTypeCPU ELSE pt

\* the period without the test against the maximum
getSamplePeriodUnclamped(s) ==
    IF s = Empty THEN defaultSamplePeriod
    ELSE LET r == ParseDuration(s)
         IN  IF ~r.ok THEN defaultSamplePeriod ELSE r.d

getSamplePerioidFromQuery(s) ==
    IF s = Empty THEN defaultSamplePeriod
    ELSE LET r == ParseDuration(s)
         IN  IF ~r.ok THEN defaultSamplePeriod
             ELSE IF r.d > 60 THEN maxSamplePeriod
             ELSE r.d

(* ------------------------------ state ---------------------------------- *)
VARIABLES
    mtx,          \* h.mtx: the goroutine holding it, NoProc when unlocked
    profCache,    \* h.profCache: profile name -> profile
    inProfiling,  \* h.inProfiling
    cpuOn,        \* runtime/pprof: CPU profiling is running
    now,          \* time.Now(), seconds
    nReq,         \* requests accepted so far
    rid,          \* the number of the request each goroutine serves
    pc,           \* where each goroutine is
    kind,         \* the handler each goroutine runs
    query,        \* its query values pn, pt, sd
    cp,           \* createProfile's arguments and locals
    ret,          \* what tryGetProfile / createProfile returned
    names,        \* data.ProfileNames as render computed it
    resp,         \* what was written to the ResponseWriter, in order
    clearedAll,   \* history: a clear-all has emptied the cache, and no request
                  \* that captured a profile since then has returned
    fatal,        \* the Go runtime has ended the process with a fatal error
    \* the locals of the flamegraph handler while it builds the flame tree
    g,            \* the graph report.GetDOT returned
    nodes,        \* nodes: the tree nodes made so far, roots first
    nroots,       \* nroots
    rootValue,    \* rootValue
    nodeMap,      \* nodeMap: graph node -> tree node
    treeNodes,    \* the treeNode each tree node pointer points to
    rootNode,     \* rootNode, once made
    fi,           \* the index of the range loop under way
    fpc           \* where the handler is in the construction

webVars == <<mtx, profCache, inProfiling, cpuOn, now, nReq, rid, pc, kind, query,
             cp, ret, names, resp, clearedAll, fatal>>
flameVars == <<g, nodes, nroots, rootValue, nodeMap, treeNodes, rootNode, fi, fpc>>
vars == <<mtx, profCache, inProfiling, cpuOn, now, nReq, rid, pc, kind, query,
          cp, ret, names, resp, clearedAll, fatal,
          g, nodes, nroots, rootValue, nodeMap, treeNodes, rootNode, fi, fpc>>

\* a *profile.Profile is identified by the request that captured it; 0 is nil
Nil == 0
NoErr == "nil"

NoQuery == [pn |-> Empty, pt |-> Empty, sd |-> Empty]
NoCall  == [profType |-> Empty, samplePeriod |-> 0, profName |-> Empty, wake |-> 0]
NoRet   == [name |-> Empty, p |-> Nil, err |-> NoErr]

\* the values clients send as pt and as sd while requests run concurrently:
\* for pt none, "heap", "zz"; for sd "1s"
PtValues == {Empty, ProfileTypeHeap, BogusType}
SdValues == {<<49, 115>>}
\* the values a client sends as sd while requests run one at a time
SeqSdValues == {Empty, <<49, 115>>}
\* the values a client sends as pt and as sd in a single genprof request: for
\* sd none, "x", "0", "1s", "59s", "60s", "61s", "1m", "2m", "-1s", "90", "s"
AllPtValues == {Empty, ProfileTypeCPU, ProfileTypeHeap, BogusType, Junk}
AllSdValues == {Empty, Junk, <<48>>, <<49, 115>>, <<53, 57, 115>>,
                <<54, 48, 115>>, <<54, 49, 115>>, <<49, 109>>, <<50, 109>>,
                <<45, 49, 115>>, <<57, 48>>, <<115>>}
\* the values a client sends as pn: none, a name the page lists, and "x"
PnValues == {Empty} \cup DOMAIN profCache
AllPnValues == {Empty, Junk} \cup DOMAIN profCache

\* The server has been up for a while when the model starts, at second 1: the
\* cache holds what earlier captures left in it.  Their profiles are numbered
\* below zero.
OldHeap0 == profileName(ProfileTypeHeap, 5, 0)
OldCPU0  == profileName(ProfileTypeCPU, 1, 0)
OldHeap1 == profileName(ProfileTypeHeap, 5, 1)
OldCache == [n \in {OldHeap0, OldCPU0, OldHeap1} |->
                IF n = OldHeap0 THEN 0 - 1 ELSE IF n = OldCPU0 THEN 0 - 2 ELSE 0 - 3]
Restrict(m, S) == [x \in S |-> m[x]]

\* the process runs, before and after the step
Alive == fatal = FALSE /\ fatal' = FALSE

\* a graph of n nodes, g.Nodes[0] to g.Nodes[n-1] numbered 1 to n: out[k] is
\* the set of targets of the edges in k's Out, cum[k] is k's CumValue()
NoGraph == [n |-> 0, out |-> << >>, cum |-> << >>]

\* no flamegraph request is under way
NoFlame ==
    /\ g = NoGraph
    /\ nodes = << >>
    /\ nroots = 0
    /\ rootValue = 0
    /\ nodeMap = << >>
    /\ treeNodes = << >>
    /\ rootNode = Nil
    /\ fi = 0
    /\ fpc = "none"

InitWeb(caches) ==
    /\ mtx = NoProc
    /\ profCache \in caches
    /\ inProfiling = FALSE
    /\ cpuOn = FALSE
    /\ now = 1
    /\ nReq = 0
    /\ rid = [p \in Procs |-> 0]
    /\ pc = [p \in Procs |-> "idle"]
    /\ kind = [p \in Procs |-> "none"]
    /\ query = [p \in Procs |-> NoQuery]
    /\ cp = [p \in Procs |-> NoCall]
    /\ ret = [p \in Procs |-> NoRet]
    /\ names = [p \in Procs |-> << >>]
    /\ resp = [p \in Procs |-> << >>]
    /\ clearedAll = FALSE
    /\ fatal = FALSE

InitWith(caches) == InitWeb(caches) /\ NoFlame

\* requests run concurrently on a cache that is empty or holds one profile
Init == InitWith({<< >>, Restrict(OldCache, {OldHeap0})})

\* requests run one at a time on a cache of none to three profiles
InitSeq == InitWith({Restrict(OldCache, S) : S \in SUBSET DOMAIN OldCache})

(* --------------------------- the profile cache ------------------------- *)
\* the comparator with its operands the other way round: an ascending sort
namesLessAscending(a, b) == StrLess(a, b)

\* the comparator of sort.Slice in profileNames: names[i] > names[j]
namesLess(a, b) == StrLess(b, a)

\* s with k placed before the first element that k sorts before
RECURSIVE InsertSorted(_, _)
InsertSorted(s, k) ==
    IF s = << >> THEN <<k>>
    ELSE IF namesLess(k, s[1]) THEN <<k>> \o s
    ELSE <<s[1]>> \o InsertSorted(Tail(s), k)

\* the keys of a map, ranged over in some order, then sorted
RECURSIVE SortKeys(_)
SortKeys(S) ==
    IF S = {} THEN << >>
    ELSE LET k == CHOOSE x \in S : TRUE IN InsertSorted(SortKeys(S \ {k}), k)

profileNames(cache) == SortKeys(DOMAIN cache)

getProfile(cache, name) == IF name \in DOMAIN cache THEN cache[name] ELSE Nil

\* the last of the sorted names taken instead of the first
latestProfileOldest(cache) ==
    LET ns == profileNames(cache)
    IN  IF Len(ns) = 0 THEN [name |-> Empty, p |-> Nil]
        ELSE [name |-> ns[Len(ns)], p |-> cache[ns[Len(ns)]]]

\* lines 417-429: names[0] of the sorted names, looked up in the map
latestProfile(cache) ==
    LET ns == profileNames(cache)
    IN  IF Len(ns) = 0 THEN [name |-> Empty, p |-> Nil]
        ELSE IF ns[1] \in DOMAIN cache THEN [name |-> ns[1], p |-> cache[ns[1]]]
        ELSE [name |-> Empty, p |-> Nil]

\* a map made anew for the one entry
MapPutAlone(m, k, v) == [x \in {k} |-> v]

\* m[k] = v, as a Go map assignment
MapPut(m, k, v) == [x \in (DOMAIN m) \cup {k} |-> IF x = k THEN v ELSE m[x]]
\* delete(m, k)
MapDelete(m, k) == [x \in (DOMAIN m) \ {k} |-> m[x]]

(* ---------------------------- the requests ----------------------------- *)
\* A goroutine starts serving a request: its locals are fresh.
AcceptWithin(p, k, q, max) ==
    /\ Alive
    /\ UNCHANGED flameVars
    /\ pc[p] = "idle"
    /\ nReq < max
    /\ nReq' = nReq + 1
    /\ rid' = [rid EXCEPT ![p] = nReq + 1]
    /\ kind' = [kind EXCEPT ![p] = k]
    /\ query' = [query EXCEPT ![p] = q]
    /\ UNCHANGED <<ret, names, resp>>

Accept(p, k, q) == AcceptWithin(p, k, q, MaxRequests)

\* the profile a capture by the current request of p decodes
NewProfile(p) == rid[p]

\* genprof, down to the call of createProfile
genprofWithin(p, pts, sds, max) ==
    \E ptv \in pts, sdv \in sds :
        /\ AcceptWithin(p, "genprof", [pn |-> Empty, pt |-> ptv, sd |-> sdv], max)
        /\ cp' = [cp EXCEPT ![p] = [NoCall EXCEPT
                      !.profType = getProfileTypeFromQuery(ptv),
                      !.samplePeriod = getSamplePerioidFromQuery(sdv)]]
        /\ pc' = [pc EXCEPT ![p] = "cp_lock"]
        /\ UNCHANGED <<mtx, profCache, inProfiling, cpuOn, now, clearedAll>>

genprofFrom(p, pts, sds) == genprofWithin(p, pts, sds, MaxRequests)

genprofCall(p) == genprofFrom(p, PtValues, SdValues)

\* a view handler (dot, top, disasm, source, peek, flamegraph), down to the
\* call of getProfile in tryGetProfile
viewFrom(p, pns) ==
    \E pnv \in pns :
        /\ Accept(p, "view", [pn |-> pnv, pt |-> Empty, sd |-> Empty])
        /\ pc' = [pc EXCEPT ![p] = "gp_lock"]
        /\ UNCHANGED <<mtx, profCache, inProfiling, cpuOn, now, cp, clearedAll>>

viewCall(p) == viewFrom(p, PnValues)

\* clearprof, down to h.mtx.Lock()
clearprofFrom(p, pns) ==
    \E pnv \in pns :
        /\ Accept(p, "clearprof", [pn |-> pnv, pt |-> Empty, sd |-> Empty])
        /\ pc' = [pc EXCEPT ![p] = "cl_lock"]
        /\ UNCHANGED <<mtx, profCache, inProfiling, cpuOn, now, cp, clearedAll>>

clearprofCall(p) == clearprofFrom(p, PnValues)

\* h.mtx.Lock() at position from, continuing at position to
Lock(p, from, to) ==
    /\ Alive
    /\ UNCHANGED flameVars
    /\ pc[p] = from
    /\ mtx = NoProc
    /\ mtx' = p
    /\ pc' = [pc EXCEPT ![p] = to]
    /\ UNCHANGED <<profCache, inProfiling, cpuOn, now, nReq, rid, kind, query, cp,
                   ret, names, resp, clearedAll>>

\* h.mtx.Unlock(): sync.Mutex does not record its owner
Unlock == NoProc

(* ----------------------------- clearprof ------------------------------- *)
clearprofLock(p) == Lock(p, "cl_lock", "cl_body")

\* the cache emptied whether or not a name is given
clearprofCacheAlways(cache, name) == << >>

\* the cache after clearprof's if statement
clearprofCache(cache, name) ==
    IF name # Empty THEN MapDelete(cache, name) ELSE << >>

\* the body of clearprof under the lock, the redirect and the deferred Unlock
clearprof(p) ==
    /\ Alive
    /\ UNCHANGED flameVars
    /\ pc[p] = "cl_body"
    /\ profCache' = clearprofCache(profCache, query[p].pn)
    /\ resp' = [resp EXCEPT ![p] = Append(@, "redirect")]
    /\ mtx' = Unlock
    /\ pc' = [pc EXCEPT ![p] = "done"]
    /\ clearedAll' = IF query[p].pn = Empty THEN TRUE ELSE clearedAll
    /\ UNCHANGED <<inProfiling, cpuOn, now, nReq, rid, kind, query, cp, ret, names>>

(* ---------------------------- createProfile ---------------------------- *)
ErrInProfiling == "already in profiling"
ErrUnknownType == "unknown profile type"
ErrStartCPU    == "cpu profiling already in use"
ErrWriteHeap   == "heap profile write failed"
ErrParse       == "profile parse failed"

\* where a goroutine continues when createProfile returns r to it:
\* genprof looks at the error, tryGetProfile hands r to the view handler
AfterCreate(p, r) ==
    IF kind[p] = "genprof" THEN "gen_resp"
    ELSE IF r.err = NoErr THEN "report" ELSE "view_fail"

createProfileLock(p) == Lock(p, "cp_lock", "cp_gate")

\* lines 433-437: the test of h.inProfiling under the lock, and the Unlock
\* on either branch
createProfileGate(p) ==
    /\ Alive
    /\ UNCHANGED flameVars
    /\ pc[p] = "cp_gate"
    /\ mtx' = Unlock
    /\ IF inProfiling
       THEN LET r == [NoRet EXCEPT !.err = ErrInProfiling]
            IN  /\ ret' = [ret EXCEPT ![p] = r]
                /\ cp' = [cp EXCEPT ![p] = NoCall]
                /\ pc' = [pc EXCEPT ![p] = AfterCreate(p, r)]
       ELSE /\ pc' = [pc EXCEPT ![p] = "cp_set"]
            /\ UNCHANGED <<ret, cp>>
    /\ UNCHANGED <<profCache, inProfiling, cpuOn, now, nReq, rid, kind, query,
                   names, resp, clearedAll>>

\* line 438: h.inProfiling = true, after the Unlock
createProfileSet(p) ==
    /\ Alive
    /\ UNCHANGED flameVars
    /\ pc[p] = "cp_set"
    /\ inProfiling' = TRUE
    /\ pc' = [pc EXCEPT ![p] = "cp_start"]
    /\ UNCHANGED <<mtx, profCache, cpuOn, now, nReq, rid, kind, query, cp, ret,
                   names, resp, clearedAll>>

\* the error noted but not returned: the call goes on to the insertion
FailNotReturned(p, e) ==
    /\ ret' = [ret EXCEPT ![p] = [NoRet EXCEPT !.err = e]]
    /\ pc' = [pc EXCEPT ![p] = "cp_ins_lock"]

\* an exit of createProfile with an error, before the deferred function runs
Fail(p, e) ==
    /\ ret' = [ret EXCEPT ![p] = [NoRet EXCEPT !.err = e]]
    /\ pc' = [pc EXCEPT ![p] = "cp_defer"]

\* a successful profile.Parse: on to the insertion
Parsed(p) ==
    /\ pc' = [pc EXCEPT ![p] = "cp_ins_lock"]
    /\ UNCHANGED ret

\* lines 443-459 up to the sleep: the name from time.Now(), then the switch.
\* pprof.StartCPUProfile fails when CPU profiling is already running, started
\* here (cpuOn) or by other code of the process (busy).  pprof.WriteHeapProfile
\* and profile.Parse succeed or fail.
createProfileStart(p) ==
    /\ Alive
    /\ UNCHANGED flameVars
    /\ pc[p] = "cp_start"
    /\ LET name == profileName(cp[p].profType, cp[p].samplePeriod, now)
       IN  cp' = [cp EXCEPT ![p].profName = name,
                            ![p].wake = now + cp[p].samplePeriod]
    /\ CASE cp[p].profType = ProfileTypeCPU ->
              \E busy \in BOOLEAN :
                  IF cpuOn \/ busy
                  THEN Fail(p, ErrStartCPU) /\ UNCHANGED cpuOn
                  ELSE /\ cpuOn' = TRUE
                       /\ pc' = [pc EXCEPT ![p] = "cp_sleep"]
                       /\ UNCHANGED ret
         [] cp[p].profType = ProfileTypeHeap ->
              /\ UNCHANGED cpuOn
              /\ \E e \in {NoErr, ErrWriteHeap, ErrParse} :
                     IF e = NoErr THEN Parsed(p) ELSE Fail(p, e)
         [] OTHER ->
              Fail(p, ErrUnknownType) /\ UNCHANGED cpuOn
    /\ UNCHANGED <<mtx, profCache, inProfiling, now, nReq, rid, kind, query,
                   names, resp, clearedAll>>

\* lines 450-464 on the cpu branch: time.Sleep(samplePeriod) has returned,
\* pprof.StopCPUProfile(), profile.Parse
createProfileStop(p) ==
    /\ Alive
    /\ UNCHANGED flameVars
    /\ pc[p] = "cp_sleep"
    /\ now >= cp[p].wake
    /\ cpuOn' = FALSE
    /\ \E ok \in BOOLEAN : IF ok THEN Parsed(p) ELSE Fail(p, ErrParse)
    /\ UNCHANGED <<mtx, profCache, inProfiling, now, nReq, rid, kind, query, cp,
                   names, resp, clearedAll>>

createProfileInsertLock(p) == Lock(p, "cp_ins_lock", "cp_insert")

\* the insertion made into the map the call saw before sampling: a map that a
\* clear-all has replaced since (line 350) no longer is the cache
createProfileInsertStaleMap(p) ==
    /\ Alive
    /\ UNCHANGED flameVars
    /\ pc[p] = "cp_insert"
    /\ profCache' = IF clearedAll THEN profCache
                    ELSE MapPut(profCache, cp[p].profName, NewProfile(p))
    /\ mtx' = Unlock
    /\ ret' = [ret EXCEPT ![p] = [name |-> cp[p].profName, p |-> NewProfile(p),
                                  err |-> NoErr]]
    /\ pc' = [pc EXCEPT ![p] = "cp_defer"]
    /\ UNCHANGED <<inProfiling, cpuOn, now, nReq, rid, kind, query, cp, names, resp,
                   clearedAll>>

\* lines 467-469: the insertion under the lock, the Unlock, the return value
createProfileInsert(p) ==
    /\ Alive
    /\ UNCHANGED flameVars
    /\ pc[p] = "cp_insert"
    /\ profCache' = MapPut(profCache, cp[p].profName, NewProfile(p))
    /\ mtx' = Unlock
    /\ ret' = [ret EXCEPT ![p] = [name |-> cp[p].profName, p |-> NewProfile(p),
                                  err |-> NoErr]]
    /\ pc' = [pc EXCEPT ![p] = "cp_defer"]
    /\ UNCHANGED <<inProfiling, cpuOn, now, nReq, rid, kind, query, cp, names, resp,
                   clearedAll>>

\* the flag cleared at the end of the successful path only
createProfileDeferOnSuccess(p) ==
    /\ Alive
    /\ UNCHANGED flameVars
    /\ pc[p] = "cp_defer"
    /\ inProfiling' = IF ret[p].err = NoErr THEN FALSE ELSE inProfiling
    /\ cp' = [cp EXCEPT ![p] = NoCall]
    /\ pc' = [pc EXCEPT ![p] = AfterCreate(p, ret[p])]
    /\ UNCHANGED <<mtx, profCache, cpuOn, now, nReq, rid, kind, query, ret, names,
                   resp, clearedAll>>

\* lines 439-441: the deferred function, then the return to the caller
createProfileDefer(p) ==
    /\ Alive
    /\ UNCHANGED flameVars
    /\ pc[p] = "cp_defer"
    /\ inProfiling' = FALSE
    /\ cp' = [cp EXCEPT ![p] = NoCall]
    /\ pc' = [pc EXCEPT ![p] = AfterCreate(p, ret[p])]
    /\ UNCHANGED <<mtx, profCache, cpuOn, now, nReq, rid, kind, query, ret, names,
                   resp, clearedAll>>

(* ---------------------------- tryGetProfile ---------------------------- *)
getProfileLock(p) == Lock(p, "gp_lock", "gp_read")

\* tryGetProfile without its first step: the name asked for is not looked up
tryGetProfileNamedSkipped(p) ==
    /\ Alive
    /\ UNCHANGED flameVars
    /\ pc[p] = "gp_read"
    /\ mtx' = Unlock
    /\ pc' = [pc EXCEPT ![p] = "lp_lock"]
    /\ UNCHANGED <<profCache, inProfiling, cpuOn, now, nReq, rid, kind, query,
                   cp, ret, names, resp, clearedAll>>

\* lines 500-504: getProfile(profname) under the lock and its deferred Unlock;
\* a hit is returned under the name asked for
tryGetProfileNamed(p) ==
    /\ Alive
    /\ UNCHANGED flameVars
    /\ pc[p] = "gp_read"
    /\ mtx' = Unlock
    /\ LET found == getProfile(profCache, query[p].pn)
       IN  IF found # Nil
           THEN /\ ret' = [ret EXCEPT ![p] = [name |-> query[p].pn, p |-> found,
                                              err |-> NoErr]]
                /\ pc' = [pc EXCEPT ![p] = "report"]
           ELSE /\ pc' = [pc EXCEPT ![p] = "lp_lock"]
                /\ UNCHANGED ret
    /\ UNCHANGED <<profCache, inProfiling, cpuOn, now, nReq, rid, kind, query,
                   cp, names, resp, clearedAll>>

latestProfileLock(p) == Lock(p, "lp_lock", "lp_read")

\* tryGetProfile without its last step: nothing cached is an error
tryGetProfileLatestNoCapture(p) ==
    /\ Alive
    /\ UNCHANGED flameVars
    /\ pc[p] = "lp_read"
    /\ mtx' = Unlock
    /\ LET l == latestProfile(profCache)
       IN  IF l.p # Nil
           THEN /\ ret' = [ret EXCEPT ![p] = [name |-> l.name, p |-> l.p,
                                              err |-> NoErr]]
                /\ pc' = [pc EXCEPT ![p] = "report"]
           ELSE /\ ret' = [ret EXCEPT ![p] = [NoRet EXCEPT !.err = "no profile"]]
                /\ pc' = [pc EXCEPT ![p] = "view_fail"]
    /\ UNCHANGED <<profCache, inProfiling, cpuOn, now, nReq, rid, kind, query,
                   cp, names, resp, clearedAll>>

\* lines 506-511: latestProfile() under the lock and its deferred Unlock; with
\* nothing cached, the call createProfile(ProfileTypeCPU, defaultSamplePeriod)
tryGetProfileLatest(p) ==
    /\ Alive
    /\ UNCHANGED flameVars
    /\ pc[p] = "lp_read"
    /\ mtx' = Unlock
    /\ LET l == latestProfile(profCache)
       IN  IF l.p # Nil
           THEN /\ ret' = [ret EXCEPT ![p] = [name |-> l.name, p |-> l.p,
                                              err |-> NoErr]]
                /\ pc' = [pc EXCEPT ![p] = "report"]
                /\ UNCHANGED cp
           ELSE /\ cp' = [cp EXCEPT ![p] = [NoCall EXCEPT
                             !.profType = ProfileTypeCPU,
                             !.samplePeriod = defaultSamplePeriod]]
                /\ pc' = [pc EXCEPT ![p] = "cp_lock"]
                /\ UNCHANGED ret
    /\ UNCHANGED <<profCache, inProfiling, cpuOn, now, nReq, rid, kind, query,
                   names, resp, clearedAll>>

(* ------------------------------ responses ------------------------------ *)
\* the last writes of a handler
Finish(p, written) ==
    /\ resp' = [resp EXCEPT ![p] = @ \o written]
    /\ pc' = [pc EXCEPT ![p] = "done"]

\* the handler has returned: the goroutine and its locals are gone
Return(p) ==
    /\ Alive
    /\ UNCHANGED flameVars
    /\ pc[p] = "done"
    /\ pc' = [pc EXCEPT ![p] = "idle"]
    /\ kind' = [kind EXCEPT ![p] = "none"]
    /\ query' = [query EXCEPT ![p] = NoQuery]
    /\ ret' = [ret EXCEPT ![p] = NoRet]
    /\ names' = [names EXCEPT ![p] = << >>]
    /\ resp' = [resp EXCEPT ![p] = << >>]
    /\ rid' = [rid EXCEPT ![p] = 0]
    /\ clearedAll' = IF ret[p].p = rid[p] THEN FALSE ELSE clearedAll
    /\ UNCHANGED <<mtx, profCache, inProfiling, cpuOn, now, nReq, cp>>

\* lines 337-340 of genprof: http.Error on an error, and then the redirect
genprofWrites(err) ==
    IF err # NoErr THEN <<"fail to create a profile", "redirect">>
    ELSE <<"redirect">>

genprofRespond(p) ==
    /\ Alive
    /\ UNCHANGED flameVars
    /\ pc[p] = "gen_resp"
    /\ Finish(p, genprofWrites(ret[p].err))
    /\ UNCHANGED <<mtx, profCache, inProfiling, cpuOn, now, nReq, rid, kind,
                   query, cp, ret, names, clearedAll>>

\* a view handler whose tryGetProfile returned an error
viewFail(p) ==
    /\ Alive
    /\ UNCHANGED flameVars
    /\ pc[p] = "view_fail"
    /\ Finish(p, <<"fail to get an available profile">>)
    /\ UNCHANGED <<mtx, profCache, inProfiling, cpuOn, now, nReq, rid, kind,
                   query, cp, ret, names, clearedAll>>

\* makeReport on the resolved profile: a report, or http.Error and no report
makeReport(p) ==
    /\ Alive
    /\ UNCHANGED flameVars
    /\ pc[p] = "report"
    /\ \E ok \in BOOLEAN :
           IF ok THEN pc' = [pc EXCEPT ![p] = "render"] /\ UNCHANGED resp
           ELSE Finish(p, <<"bad request">>)
    /\ UNCHANGED <<mtx, profCache, inProfiling, cpuOn, now, nReq, rid, kind,
                   query, cp, ret, names, clearedAll>>

\* the cache as goroutine q, inside its critical section, is about to leave it
PendingWrite(q) ==
    IF pc[q] = "cp_insert" THEN MapPut(profCache, cp[q].profName, NewProfile(q))
    ELSE clearprofCache(profCache, query[q].pn)

\* the maps a read of h.profCache without h.mtx can see: the map as it is
\* and, when another goroutine is writing it under the lock in the meantime,
\* the map as written
RacyCaches(p) ==
    {profCache} \cup
    {PendingWrite(q) : q \in {r \in Procs \ {p} : pc[r] \in {"cp_insert", "cl_body"}}}

\* render: data.ProfileNames = h.profileNames(), with h.mtx not taken, then
\* the page
render(p) ==
    /\ Alive
    /\ UNCHANGED flameVars
    /\ pc[p] = "render"
    /\ \E c \in RacyCaches(p) :
           names' = [names EXCEPT ![p] = profileNames(c)]
    /\ Finish(p, <<"page">>)
    /\ UNCHANGED <<mtx, profCache, inProfiling, cpuOn, now, nReq, rid, kind,
                   query, cp, ret, clearedAll>>

\* goroutine q, inside its critical section, is about to write a key of a
\* map that is not empty: m[k] = v at line 467, delete(m, k) at line 348
WritesMap(q) ==
    /\ profCache # << >>
    /\ \/ pc[q] = "cp_insert"
       \/ pc[q] = "cl_body" /\ query[q].pn # Empty

\* render's range over h.profCache in profileNames, with h.mtx not taken,
\* overlaps a write of the map by another goroutine and the runtime detects
\* it: "fatal error: concurrent map iteration and map write" ends the process
renderFatal(p) ==
    /\ pc[p] = "render"
    /\ fatal = FALSE
    /\ \E q \in Procs \ {p} : WritesMap(q)
    /\ fatal' = TRUE
    /\ UNCHANGED <<mtx, profCache, inProfiling, cpuOn, now, nReq, rid, pc, kind,
                   query, cp, ret, names, resp, clearedAll>>
    /\ UNCHANGED flameVars

(* ------------------------------ the clock ------------------------------ *)
TickTo(last) ==
    /\ Alive
    /\ UNCHANGED flameVars
    /\ now < last
    /\ now' = now + 1
    /\ UNCHANGED <<mtx, profCache, inProfiling, cpuOn, nReq, rid, pc, kind,
                   query, cp, ret, names, resp, clearedAll>>

Tick == TickTo(MaxTime)
\* With one goroutine the clock is read in createProfile only: the seconds
\* that pass elsewhere inside a handler are counted before it starts.
TickSeq == pc[1] \in {"idle", "cp_sleep"} /\ TickTo(MaxSeqTime)

\* a step of goroutine p inside createProfile
CaptureStep(p) ==
        \/ createProfileLock(p)
        \/ createProfileGate(p)
        \/ createProfileSet(p)
        \/ createProfileStart(p)
        \/ createProfileStop(p)
        \/ createProfileInsertLock(p)
        \/ createProfileInsert(p)
        \/ createProfileDefer(p)

\* a step of goroutine p inside a handler
Step(p) ==
        \/ CaptureStep(p)
        \/ clearprofLock(p)
        \/ clearprof(p)
        \/ getProfileLock(p)
        \/ tryGetProfileNamed(p)
        \/ latestProfileLock(p)
        \/ tryGetProfileLatest(p)
        \/ genprofRespond(p)
        \/ viewFail(p)
        \/ makeReport(p)
        \/ render(p)
        \/ Return(p)

\* both goroutines serve requests
Next ==
    \/ Tick
    \/ \E p \in Procs :
        \/ genprofCall(p)
        \/ viewCall(p)
        \/ clearprofCall(p)
        \/ Step(p)
        \/ renderFatal(p)

Spec == Init /\ [][Next]_vars

\* The same with the scheduling Go guarantees: a goroutine that can take a
\* step takes one, and time passes.  A sleeping goroutine is woken: the clock
\* goes on past MaxTime while a time.Sleep is pending.
TickLive ==
    /\ \/ now < MaxTime
       \/ \E p \in Procs : pc[p] = "cp_sleep" /\ now < cp[p].wake
    /\ TickTo(now + 1)

NextLive ==
    \/ TickLive
    \/ \E p \in Procs :
        \/ genprofCall(p)
        \/ viewCall(p)
        \/ clearprofCall(p)
        \/ Step(p)
        \/ renderFatal(p)

SpecLive ==
    /\ Init
    /\ [][NextLive]_vars
    /\ WF_vars(TickLive)
    /\ \A p \in Procs : WF_vars(Step(p))

\* goroutine 1 serves one request after the other
genprofSeq == genprofFrom(1, PtValues, SeqSdValues)
viewSeq == viewFrom(1, AllPnValues)
clearprofSeq == clearprofFrom(1, AllPnValues)

NextSeq ==
    \/ TickSeq
    \/ genprofSeq
    \/ viewSeq
    \/ clearprofSeq
    \/ Step(1)

SpecSeq == InitSeq /\ [][NextSeq]_vars

\* goroutine 1 serves a single genprof request, with any query values
genprofAny == nReq = 0 /\ genprofFrom(1, AllPtValues, AllSdValues)

NextQuery ==
    \/ TickSeq
    \/ genprofAny
    \/ CaptureStep(1)
    \/ genprofRespond(1)
    \/ Return(1)

SpecQuery == Init /\ [][NextQuery]_vars

\* both goroutines serve capture requests only, for cpu (pt missing) or heap
CapturePtValues == {Empty, ProfileTypeHeap}
genprofCapture(p) == genprofWithin(p, CapturePtValues, SdValues, MaxCaptures)

NextCapture ==
    \/ Tick
    \/ \E p \in Procs :
        \/ genprofCapture(p)
        \/ CaptureStep(p)
        \/ genprofRespond(p)
        \/ Return(p)

SpecCapture == Init /\ [][NextCapture]_vars

(* --------------------- flamegraph: the flame tree ---------------------- *)
\* The handler has a profile and a report; report.GetDOT hands it a graph.
\* Name, FullName, CumFormat and Percent of a treeNode are texts computed from
\* the graph node alone and take no part in the construction; a treeNode is
\* modelled by its Cum and its Children.

\* the values of CumValue()
CumValues == {1, 2}

\* the number of edges of a graph whose nodes have the targets out[k]
EdgeCount(out) == Cardinality(UNION {{k} \X out[k] : k \in DOMAIN out})

\* n.In of graph node k: the sources of the edges into k
In(gr, k) == {m \in 1..gr.n : k \in gr.out[m]}

\* The flamegraph handler is about to build the tree of a graph.  The graphs
\* report.GetDOT may return: up to MaxNodes nodes in any order of roots and
\* non-roots, up to MaxEdges edges, loops and cycles included.
InitFlame ==
    /\ InitWeb({<< >>})
    /\ \E n \in 0..MaxNodes :
          \E o \in [1..n -> SUBSET (1..n)], c \in [1..n -> CumValues] :
              /\ EdgeCount(o) <= MaxEdges
              /\ g = [n |-> n, out |-> o, cum |-> c]
    /\ nodes = << >>
    /\ nroots = 0
    /\ rootValue = 0
    /\ nodeMap = << >>
    /\ treeNodes = << >>
    /\ rootNode = Nil
    /\ fi = 1
    /\ fpc = "collect"

\* one treeNode variable for the whole loop: every iteration yields its address
AllocLoopVariable(k) == 10

\* &treeNode{...} in the k-th iteration: a pointer no other treeNode has
Alloc(k) == 10 * k

\* a node with no outgoing edges taken for a root
IsRootNoOut(gr, k) == gr.out[k] = {}

\* line 292: len(n.In) == 0
IsRoot(gr, k) == In(gr, k) = {}

\* the new root left where append put it
SwapToFrontMissing(ns, nr) == ns

\* line 293: nodes[nroots], nodes[len(nodes)-1] = nodes[len(nodes)-1], nodes[nroots]
SwapToFront(ns, nr) ==
    [ns EXCEPT ![nr + 1] = ns[Len(ns)], ![Len(ns)] = ns[nr + 1]]

\* lines 281-298: one iteration of the first loop over g.Nodes
flamegraphCollect ==
    /\ UNCHANGED webVars
    /\ fpc = "collect"
    /\ fi <= g.n
    /\ LET v == g.cum[fi]
           node == Alloc(fi)
           appended == Append(nodes, node)
       IN  /\ treeNodes' = MapPut(treeNodes, node, [Cum |-> v, Children |-> << >>])
           /\ IF IsRoot(g, fi)
              THEN /\ nodes' = SwapToFront(appended, nroots)
                   /\ nroots' = nroots + 1
                   /\ rootValue' = rootValue + v
              ELSE /\ nodes' = appended
                   /\ UNCHANGED <<nroots, rootValue>>
           /\ nodeMap' = MapPut(nodeMap, fi, node)
    /\ fi' = fi + 1
    /\ UNCHANGED <<g, rootNode, fpc>>

\* the first loop is over, the second starts
flamegraphCollected ==
    /\ UNCHANGED webVars
    /\ fpc = "collect"
    /\ fi > g.n
    /\ fi' = 1
    /\ fpc' = "link"
    /\ UNCHANGED <<g, nodes, nroots, rootValue, nodeMap, treeNodes, rootNode>>

\* the orders in which a range over a map with the keys S yields them
Orders(S) ==
    {s \in [1..Cardinality(S) -> S] : \A i, j \in DOMAIN s : s[i] = s[j] => i = j}

\* only the child the range yields first is linked
ChildrenFirstOnly(children, order, nm) ==
    IF Len(order) = 0 THEN children ELSE Append(children, nm[order[1]])

\* lines 303-305: node.Children after the range over n.Out in some order
ChildrenAfter(children, order, nm) ==
    children \o [i \in 1..Len(order) |-> nm[order[i]]]

\* lines 301-306: one iteration of the second loop over g.Nodes
flamegraphLink ==
    /\ UNCHANGED webVars
    /\ fpc = "link"
    /\ fi <= g.n
    /\ LET node == nodeMap[fi]
       IN  \E order \in Orders(g.out[fi]) :
               treeNodes' = [treeNodes EXCEPT ![node].Children =
                                ChildrenAfter(@, order, nodeMap)]
    /\ fi' = fi + 1
    /\ UNCHANGED <<g, nodes, nroots, rootValue, nodeMap, rootNode, fpc>>

\* every tree node made a child of the synthetic root
RootChildrenAll(ns, nr) == ns

\* line 315: nodes[0:nroots]
RootChildren(ns, nr) == SubSeq(ns, 1, nr)

\* lines 309-316: the synthetic root
flamegraphRoot ==
    /\ UNCHANGED webVars
    /\ fpc = "link"
    /\ fi > g.n
    /\ rootNode' = [Cum |-> rootValue, Children |-> RootChildren(nodes, nroots)]
    /\ fpc' = "done"
    /\ UNCHANGED <<g, nodes, nroots, rootValue, nodeMap, treeNodes, fi>>

NextFlame ==
    \/ flamegraphCollect
    \/ flamegraphCollected
    \/ flamegraphLink
    \/ flamegraphRoot

SpecFlame == InitFlame /\ [][NextFlame]_vars

(* ------------------------------ the claims ----------------------------- *)
\* goroutine p is inside a call of createProfile
InCreate(p) ==
    pc[p] \in {"cp_lock", "cp_gate", "cp_set", "cp_start", "cp_sleep",
               "cp_ins_lock", "cp_insert", "cp_defer"}

\* goroutine p has passed the test of h.inProfiling and has not returned yet
PastGate(p) ==
    pc[p] \in {"cp_set", "cp_start", "cp_sleep", "cp_ins_lock", "cp_insert",
               "cp_defer"}

\* the next step of goroutine p reads or writes h.profCache or h.inProfiling
AtSharedAccess(p) ==
    pc[p] \in {"gp_read", "lp_read", "cp_gate", "cp_set", "cp_insert",
               "cp_defer", "cl_body", "render"}

\* C1: at any instant at most one createProfile call is between passing the
\* in-progress gate and returning.
C1_AtMostOneCapture == Cardinality({p \in Procs : PastGate(p)}) <= 1

\* C2: a createProfile call that reaches the gate while another call is past
\* it returns "already in profiling" at once and leaves the cache and the
\* in-progress flag as they were.
C2_SecondCaptureRejected ==
    [][\A p \in Procs :
          (/\ pc[p] = "cp_gate"
           /\ pc'[p] # "cp_gate"
           /\ \E q \in Procs \ {p} : PastGate(q))
          => /\ pc'[p] \in {"gen_resp", "view_fail"}
             /\ ret'[p].err = ErrInProfiling
             /\ profCache' = profCache
             /\ inProfiling' = inProfiling]_vars

\* C3: whenever no createProfile call is executing, h.inProfiling is false,
\* whichever way the calls that passed the gate ended.
C3_FlagReleased == (\A p \in Procs : ~InCreate(p)) => inProfiling = FALSE

\* a capture that passed the gate has failed and returned to genprof, no
\* createProfile call is executing and the flag is clear
C3_Witness ==
    /\ \E p \in Procs : /\ pc[p] = "gen_resp"
                        /\ ret[p].err \in {ErrUnknownType, ErrStartCPU,
                                           ErrWriteHeap, ErrParse}
    /\ \A p \in Procs : ~InCreate(p)
    /\ inProfiling = FALSE

\* C4: every read and write of h.profCache and h.inProfiling is made by a
\* goroutine that holds h.mtx.
C4_AccessUnderLock == \A p \in Procs : AtSharedAccess(p) => mtx = p

\* the greatest name of a non-empty set, by Go's string order
Greatest(S) == CHOOSE n \in S : \A m \in S : ~StrLess(n, m)

\* each element of ns is smaller than the one before it
IsDescending(ns) == \A i \in 1..(Len(ns) - 1) : StrLess(ns[i + 1], ns[i])

\* ns lists every element of S, and as many elements as S has
ListsEach(ns, S) ==
    /\ {ns[i] : i \in 1..Len(ns)} = S
    /\ Len(ns) = Cardinality(S)

\* goroutine p takes a step from position at
Leaves(p, at) == pc[p] = at /\ pc'[p] # at

\* C5: tryGetProfile(pn) returns the entry named pn when the cache has one;
\* otherwise the most recent entry, starting no capture, when the cache is not
\* empty; and only on an empty cache calls createProfile(cpu, 5s) and returns
\* what that call returns.
C5_ResolutionOrder ==
    [][\A p \in Procs :
        /\ Leaves(p, "gp_read") =>
             IF query[p].pn \in DOMAIN profCache
             THEN /\ pc'[p] = "report"
                  /\ ret'[p] = [name |-> query[p].pn,
                                p |-> profCache[query[p].pn], err |-> NoErr]
                  /\ cp'[p] = NoCall
             ELSE pc'[p] = "lp_lock" /\ ret'[p] = NoRet
        /\ Leaves(p, "lp_read") =>
             IF DOMAIN profCache # {}
             THEN /\ pc'[p] = "report"
                  /\ ret'[p] = [name |-> Greatest(DOMAIN profCache),
                                p |-> profCache[Greatest(DOMAIN profCache)],
                                err |-> NoErr]
                  /\ cp'[p] = NoCall
             ELSE /\ pc'[p] = "cp_lock"
                  /\ cp'[p].profType = ProfileTypeCPU
                  /\ cp'[p].samplePeriod = 5
        /\ (kind[p] = "view" /\ InCreate(p) /\ ~InCreate(p)') =>
             \/ /\ pc'[p] = "report"
                /\ ret'[p] = [name |-> cp[p].profName, p |-> rid[p], err |-> NoErr]
             \/ /\ pc'[p] = "view_fail"
                /\ ret'[p].err # NoErr
                /\ ret'[p].p = Nil]_vars

\* a view that found nothing cached has captured a profile of its own and goes
\* on to report from it
C5_Witness ==
    /\ kind[1] = "view"
    /\ pc[1] = "report"
    /\ ret[1].err = NoErr
    /\ ret[1].p = rid[1]
    /\ ret[1].name \in DOMAIN profCache
    /\ profCache[ret[1].name] = rid[1]

\* C6: profileNames lists every key of the cache once, in descending order;
\* latestProfile returns the entry under the greatest key, and the empty name
\* and no profile on an empty cache.
C6_NamesDescending ==
    /\ IsDescending(profileNames(profCache))
    /\ ListsEach(profileNames(profCache), DOMAIN profCache)
    /\ IF DOMAIN profCache = {}
       THEN latestProfile(profCache) = [name |-> Empty, p |-> Nil]
       ELSE latestProfile(profCache) =
                [name |-> Greatest(DOMAIN profCache),
                 p |-> profCache[Greatest(DOMAIN profCache)]]
    /\ \A p \in Procs :
        /\ (pc[p] = "done" /\ kind[p] = "view" /\ resp[p] = <<"page">>) =>
               IsDescending(names[p]) /\ ListsEach(names[p], DOMAIN profCache)
        /\ (pc[p] = "report" /\ query[p].pn \notin DOMAIN profCache
               /\ ret[p].p # rid[p]) =>
               ret[p].name = Greatest(DOMAIN profCache)

\* a view without pn rendered a page for a cache of three profiles: it lists
\* the three names, and it was served from the first of them
C6_Witness ==
    /\ pc[1] = "done"
    /\ kind[1] = "view"
    /\ query[1].pn = Empty
    /\ Len(names[1]) = 3
    /\ StrLess(names[1][3], names[1][2])
    /\ StrLess(names[1][2], names[1][1])
    /\ ret[1].name = names[1][1]

\* C7: clearprof with a name removes the entry of that name and nothing else,
\* which changes nothing when there is none, and leaves the in-progress flag
\* alone; clearprof without a name leaves the cache empty.
C7_ClearFrame ==
    [][\A p \in Procs :
        Leaves(p, "cl_body") =>
            /\ inProfiling' = inProfiling
            /\ IF query[p].pn # Empty
               THEN /\ DOMAIN profCache' = (DOMAIN profCache) \ {query[p].pn}
                    /\ \A n \in DOMAIN profCache' : profCache'[n] = profCache[n]
               ELSE DOMAIN profCache' = {}]_vars

\* the first request, a clearprof with the name of a cached profile, has taken
\* that one out of a cache of three
C7_Witness ==
    /\ nReq = 1
    /\ pc[1] = "done"
    /\ kind[1] = "clearprof"
    /\ query[1].pn \in DOMAIN OldCache
    /\ query[1].pn \notin DOMAIN profCache
    /\ Cardinality(DOMAIN profCache) = 2
    /\ \A n \in DOMAIN profCache : profCache[n] = OldCache[n]

\* C8: after a clear-all, the next view request finds nothing, calls
\* createProfile(cpu, 5s), and when that capture succeeds the cache holds the
\* new profile under its name and the view goes on with that profile.
C8_ViewAfterClearAll ==
    [][\A p \in Procs :
        (kind[p] = "view" /\ clearedAll) =>
            /\ Leaves(p, "gp_read") => pc'[p] = "lp_lock"
            /\ Leaves(p, "lp_read") =>
                   /\ pc'[p] = "cp_lock"
                   /\ cp'[p].profType = ProfileTypeCPU
                   /\ cp'[p].samplePeriod = 5
            /\ Leaves(p, "cp_insert") =>
                   /\ DOMAIN profCache' = {cp[p].profName}
                   /\ profCache'[cp[p].profName] = rid[p]
            /\ (Leaves(p, "cp_defer") /\ ret[p].err = NoErr) =>
                   /\ pc'[p] = "report"
                   /\ ret'[p] = [name |-> cp[p].profName, p |-> rid[p],
                                 err |-> NoErr]
                   /\ profCache'[ret'[p].name] = ret'[p].p
            /\ Leaves(p, "render") => resp'[p] = <<"page">> /\ ret'[p] = ret[p]]_vars

\* after a clear-all a view has captured a profile, which is all the cache
\* holds, and has rendered its page from it
C8_Witness ==
    /\ clearedAll
    /\ kind[1] = "view"
    /\ pc[1] = "done"
    /\ resp[1] = <<"page">>
    /\ ret[1].p = rid[1]
    /\ DOMAIN profCache = {ret[1].name}
    /\ profCache[ret[1].name] = rid[1]

\* what the sd values of the model mean: no duration ("x", "90", "s"), or a
\* number of seconds ("0", "1s", "59s", "60s", "61s", "1m", "2m", "-1s")
NoDuration == {Junk, <<57, 48>>, <<115>>}
SdSeconds(s) ==
    CASE s = <<48>> -> 0
      [] s = <<49, 115>> -> 1
      [] s = <<53, 57, 115>> -> 59
      [] s = <<54, 48, 115>> -> 60
      [] s = <<54, 49, 115>> -> 61
      [] s = <<49, 109>> -> 60
      [] s = <<50, 109>> -> 120
      [] s = <<45, 49, 115>> -> 0 - 1

\* C9: the period of a capture is 5s when sd is missing or is no duration,
\* 60s when sd is more than 60s, and sd itself otherwise; no capture samples
\* for more than 60s.
C9_SamplePeriod ==
    \A p \in Procs :
        /\ (kind[p] = "genprof" /\ InCreate(p)) =>
               cp[p].samplePeriod =
                   IF query[p].sd = Empty \/ query[p].sd \in NoDuration THEN 5
                   ELSE IF SdSeconds(query[p].sd) > 60 THEN 60
                   ELSE SdSeconds(query[p].sd)
        /\ InCreate(p) => cp[p].samplePeriod <= 60
        /\ pc[p] = "cp_sleep" => cp[p].wake - now <= 60

\* a genprof request with sd=61s is sampling, for 60s
C9_Witness ==
    /\ pc[1] = "cp_sleep"
    /\ query[1].sd = <<54, 49, 115>>
    /\ cp[1].samplePeriod = 60
    /\ cp[1].wake = now + 60

\* s ends with t
HasSuffix(s, t) ==
    Len(s) >= Len(t) /\ SubSeq(s, Len(s) - Len(t) + 1, Len(s)) = t

\* C10 as stated: a genprof request whose pt is missing or is neither cpu nor
\* heap makes a cpu capture.
C10_InvalidTypeDefaultsToCPU ==
    \A p \in Procs :
        (kind[p] = "genprof" /\ InCreate(p)
            /\ query[p].pt \notin {ProfileTypeCPU, ProfileTypeHeap}) =>
            cp[p].profType = ProfileTypeCPU

\* C10 as amended: a missing pt makes a cpu capture, whose profile a successful
\* capture inserts under a name that ends in "cpu"; any other pt is the type
\* of the capture as it is, only a cpu capture samples, and a capture whose
\* type is neither cpu nor heap fails with "unknown profile type" and inserts
\* nothing.
C10_MissingTypeDefaultsToCPU ==
    \A p \in Procs :
        (kind[p] = "genprof" /\ (InCreate(p) \/ pc[p] = "gen_resp")) =>
            /\ InCreate(p) =>
                   cp[p].profType =
                       IF query[p].pt = Empty THEN ProfileTypeCPU ELSE query[p].pt
            /\ pc[p] = "cp_sleep" => cp[p].profType = ProfileTypeCPU
            /\ (query[p].pt = Empty /\ pc[p] = "gen_resp" /\ ret[p].err = NoErr) =>
                   /\ HasSuffix(ret[p].name, ProfileTypeCPU)
                   /\ ret[p].name \in DOMAIN profCache
                   /\ profCache[ret[p].name] = ret[p].p
            /\ (query[p].pt \notin {Empty, ProfileTypeCPU, ProfileTypeHeap}
                   /\ pc[p] \in {"cp_ins_lock", "cp_insert", "cp_defer", "gen_resp"}) =>
                   /\ ret[p].err = ErrUnknownType
                   /\ \A n \in DOMAIN profCache : profCache[n] # rid[p]

\* a genprof request without pt has captured a cpu profile, now in the cache
C10_Witness ==
    /\ kind[1] = "genprof"
    /\ query[1].pt = Empty
    /\ pc[1] = "gen_resp"
    /\ ret[1].err = NoErr
    /\ HasSuffix(ret[1].name, ProfileTypeCPU)
    /\ ret[1].name \in DOMAIN profCache
    /\ profCache[ret[1].name] = rid[1]

\* goroutine q is sampling: it sleeps in createProfile, before and after the step
Sampling(q) == pc[q] = "cp_sleep" /\ pc'[q] = "cp_sleep"

\* C11: while a capture is sampling its goroutine does not hold h.mtx; a
\* concurrent view that finds the cache non-empty is served from the cache;
\* and a concurrent createProfile call that reaches the gate returns
\* "already in profiling" at once.
C11_NoWaitDuringSampling ==
    [][\A q \in Procs : Sampling(q) =>
          /\ mtx # q
          /\ \A p \in Procs \ {q} :
                /\ (Leaves(p, "gp_read") /\ query[p].pn \in DOMAIN profCache)
                       => (pc'[p] = "report" /\ ret'[p].p = profCache[query[p].pn])
                /\ (Leaves(p, "lp_read") /\ DOMAIN profCache # {})
                       => (pc'[p] = "report" /\ ret'[p].p # Nil)
                /\ Leaves(p, "cp_gate")
                       => (ret'[p].err = ErrInProfiling /\ ~InCreate(p)')]_vars

\* the timestamp a profile name starts with
Stamp(name) == SubSeq(name, 1, Len(TimeFormat(0)))

\* what an insertion by goroutine p must do for the new name to be a fresh,
\* greatest name: one entry more, and latestProfile returns the new profile
InsertsNewest(p) ==
    /\ cp[p].profName \notin DOMAIN profCache
    /\ \A n \in DOMAIN profCache : StrLess(n, cp[p].profName)
    /\ Cardinality(DOMAIN profCache') = Cardinality(DOMAIN profCache) + 1
    /\ latestProfile(profCache') = [name |-> cp[p].profName, p |-> rid[p]]

\* C12 as stated: with captures issued one after the other, every successful
\* capture is stored under a name that is new and greater than every earlier
\* name, so the cache gains an entry and latestProfile returns the new profile.
C12_SequentialNames ==
    [][Leaves(1, "cp_insert") => InsertsNewest(1)]_vars

\* C12 amended: the same, for a capture whose timestamp is later than the
\* timestamp of every profile cached before it.
C12_SequentialNamesLaterStamp ==
    [][(/\ Leaves(1, "cp_insert")
        /\ \A n \in DOMAIN profCache : StrLess(Stamp(n), Stamp(cp[1].profName)))
       => InsertsNewest(1)]_vars

\* the second capture of a run has been stored next to the first, under a
\* later timestamp, and is the latest profile
C12_Witness ==
    /\ pc[1] = "cp_defer"
    /\ ret[1].err = NoErr
    /\ \E n \in DOMAIN profCache :
          /\ profCache[n] \in 1..(rid[1] - 1)
          /\ StrLess(Stamp(n), Stamp(ret[1].name))
    /\ latestProfile(profCache).p = rid[1]

\* the graph nodes with no incoming edges
GraphRoots(gr) == {k \in 1..gr.n : In(gr, k) = {}}

\* the sum of CumValue() over the graph nodes in S
RECURSIVE SumCum(_, _)
SumCum(gr, S) ==
    IF S = {} THEN 0
    ELSE LET k == CHOOSE x \in S : TRUE IN gr.cum[k] + SumCum(gr, S \ {k})

\* C13: the Cum of the synthetic root is the sum of CumValue() over exactly
\* the graph nodes that have no incoming edges.
C13_RootCum ==
    fpc = "done" => rootNode.Cum = SumCum(g, GraphRoots(g))

\* the tree of a graph with two roots of different value and a node that is
\* not a root has been built
C13_Witness ==
    /\ fpc = "done"
    /\ \E a, b \in GraphRoots(g) : g.cum[a] = 1 /\ g.cum[b] = 2
    /\ GraphRoots(g) # 1..g.n
    /\ rootNode.Cum >= 3

\* the elements of a sequence
Range(s) == {s[i] : i \in 1..Len(s)}

\* the tree nodes reached from those in S by following Children links
RECURSIVE TreeReach(_)
TreeReach(S) ==
    LET T == S \cup UNION {Range(treeNodes[x].Children) : x \in S}
    IN  IF T = S THEN S ELSE TreeReach(T)

\* the tree nodes reached from the synthetic root
FlameReach == TreeReach(Range(rootNode.Children))

\* the graph nodes reached from those in S by following edges
RECURSIVE GraphReach(_, _)
GraphReach(gr, S) ==
    LET T == S \cup UNION {gr.out[k] : k \in S}
    IN  IF T = S THEN S ELSE GraphReach(gr, T)

Count(s, x) == Cardinality({i \in 1..Len(s) : s[i] = x})

\* how many times x is listed as a child, of the synthetic root or of a tree node
RECURSIVE CountIn(_, _)
CountIn(S, x) ==
    IF S = {} THEN 0
    ELSE LET y == CHOOSE z \in S : TRUE
         IN  Count(treeNodes[y].Children, x) + CountIn(S \ {y}, x)

Listings(x) == Count(rootNode.Children, x) + CountIn(DOMAIN treeNodes, x)

\* no tree node is listed as a child more than once, none is reached from itself
NoSharingNoCycle ==
    \A x \in DOMAIN treeNodes :
        /\ Listings(x) <= 1
        /\ x \notin TreeReach(Range(treeNodes[x].Children))

\* the graph is a forest: no node has several callers, none reaches itself
IsForest(gr) ==
    \A k \in 1..gr.n :
        /\ Cardinality(In(gr, k)) <= 1
        /\ k \notin GraphReach(gr, gr.out[k])

C16_CaptureCompletes ==
    /\ \A p \in Procs : InCreate(p) ~> ~InCreate(p)
    /\ (\E p \in Procs : InCreate(p))
          ~> ((\A p \in Procs : ~InCreate(p)) /\ inProfiling = FALSE)

\* C17: the timestamp in the name of a successful capture is the clock value
\* at the moment its sampling has finished.
C17_NameHasCompletionTime ==
    [][\A p \in Procs :
          (/\ pc[p] \in {"cp_start", "cp_sleep"}
           /\ pc'[p] = "cp_ins_lock")
          => Stamp(cp'[p].profName) = TimeFormat(now')]_vars

\* C18: the insertion of a successful createProfile puts the profile it returns
\* under the name it returns, adds no other key and changes no other entry; a
\* name already in the cache keeps its one entry, with the new profile.
C18_InsertFrame ==
    [][\A p \in Procs :
          Leaves(p, "cp_insert") =>
              /\ ret'[p].err = NoErr
              /\ ret'[p].name = cp[p].profName
              /\ ret'[p].p = rid[p]
              /\ DOMAIN profCache' = DOMAIN profCache \cup {ret'[p].name}
              /\ profCache'[ret'[p].name] = ret'[p].p
              /\ \A n \in DOMAIN profCache \ {ret'[p].name} :
                     profCache'[n] = profCache[n]
              /\ Len(profileNames(profCache')) = Cardinality(DOMAIN profCache')]_vars

\* a capture has overwritten the entry an earlier capture left under the same
\* name, next to an entry it did not touch
C18_Witness ==
    /\ pc[1] = "cp_defer"
    /\ ret[1] = [name |-> OldHeap1, p |-> rid[1], err |-> NoErr]
    /\ profCache[OldHeap1] = rid[1]
    /\ OldHeap0 \in DOMAIN profCache
    /\ profCache[OldHeap0] = OldCache[OldHeap0]

\* the errors of a capture that passed the gate and failed
CaptureErrors == {ErrStartCPU, ErrWriteHeap, ErrUnknownType, ErrParse}

\* C19: the step of createProfile in which the capture fails leaves the cache
\* as it is and leads to the exit; the call then returns that error and no
\* profile; and no step of the call before the insertion changes the cache,
\* so that the cache after a failed capture is the cache before it.
C19_FailureKeepsCache ==
    [][/\ (ret[1].err = NoErr /\ ret'[1].err \in CaptureErrors)
            => /\ pc[1] \in {"cp_start", "cp_sleep"}
               /\ pc'[1] = "cp_defer"
               /\ profCache' = profCache
       /\ (ret[1].err \in CaptureErrors /\ InCreate(1))
            => /\ pc[1] = "cp_defer"
               /\ Leaves(1, "cp_defer")
                    => /\ pc'[1] \in {"gen_resp", "view_fail"}
                       /\ ret'[1] = [name |-> Empty, p |-> Nil, err |-> ret[1].err]
               /\ profCache' = profCache
       /\ (InCreate(1) /\ pc[1] # "cp_insert") => profCache' = profCache]_vars

\* a capture has failed after passing the gate and has returned its error to
\* genprof; the three profiles cached before it are still there
C19_Witness ==
    /\ pc[1] = "gen_resp"
    /\ ret[1].err \in CaptureErrors
    /\ profCache = OldCache

\* the sequence s lists every element of the set S once and nothing else
ListsOnce(s, S) == Range(s) = S /\ Len(s) = Cardinality(S)

\* C20: once the first loop is over, nodes[0:nroots] lists the tree nodes of
\* the graph nodes with no incoming edges, each once and none missing, and
\* these are the Children of the synthetic root.
C20_RootChildrenAreRoots ==
    /\ fpc \in {"link", "done"} =>
           ListsOnce(SubSeq(nodes, 1, nroots), {nodeMap[k] : k \in GraphRoots(g)})
    /\ fpc = "done" =>
           ListsOnce(rootNode.Children, {nodeMap[k] : k \in GraphRoots(g)})

\* the tree has been built of a graph whose node list has a node with a caller
\* first and two roots after it
C20_Witness ==
    /\ fpc = "done"
    /\ g.n = 3
    /\ GraphRoots(g) = {2, 3}
    /\ Range(rootNode.Children) = {nodeMap[2], nodeMap[3]}

\* the tree nodes, other than the synthetic root, that list x as a child
Parents(x) == {y \in DOMAIN treeNodes : x \in Range(treeNodes[y].Children)}

\* C21: the Children of the tree node of every graph node n list the tree
\* nodes of the targets of n's outgoing edges, each once and nothing else, so
\* the tree node of a graph node with k incoming edges is a child of k tree
\* nodes, those of its callers.
C21_ChildrenAreOutTargets ==
    fpc = "done" =>
        \A k \in 1..g.n :
            /\ ListsOnce(treeNodes[nodeMap[k]].Children,
                         {nodeMap[m] : m \in g.out[k]})
            /\ Parents(nodeMap[k]) = {nodeMap[m] : m \in In(g, k)}
            /\ Cardinality(Parents(nodeMap[k])) = Cardinality(In(g, k))

\* the tree has been built of a graph with a node that two other nodes call,
\* and that node's tree node is a child of both
C21_Witness ==
    /\ fpc = "done"
    /\ \E k \in 1..g.n :
          /\ Cardinality(In(g, k) \ {k}) = 2
          /\ Cardinality(Parents(nodeMap[k])) = 2

\* C22: while a createProfile call is past the gate and has not returned,
\* h.inProfiling is true, also after another call has returned.
C22_FlagWhileCapturing ==
    (\E p \in Procs : PastGate(p)) => inProfiling = TRUE

\* C23: a genprof request writes one outcome: the redirect when createProfile
\* succeeded, the failure response when it failed, never the failure response
\* followed by the redirect.
C23_OneOutcome ==
    \A p \in Procs :
        (pc[p] = "done" /\ kind[p] = "genprof")
        => resp[p] = IF ret[p].err = NoErr
                         THEN <<"redirect">>
                         ELSE <<"fail to create a profile">>

\* the clearprof request of goroutine q has done its work on the cache and has
\* not returned yet
HasCleared(q) == pc[q] = "done" /\ kind[q] = "clearprof"

\* C24: a clearprof that runs while another goroutine is inside createProfile
\* leaves that call and what it has computed alone, and the insertion that
\* ends the capture puts the profile under the capture's name into the cache
\* as it is then, bringing back nothing: no other key is added, and when the
\* clearprof came in after the capturing request and has run, then after a
\* clear-all the cache holds the new entry only, and after a clear by name
\* that name is in the cache only as the capture's own name.
C24_ClearDuringCapture ==
    [][\A p \in Procs : \A q \in Procs \ {p} :
          /\ (Leaves(q, "cl_body") /\ InCreate(p))
                => /\ pc'[p] = pc[p]
                   /\ cp'[p] = cp[p]
                   /\ ret'[p] = ret[p]
          /\ Leaves(p, "cp_insert")
                => /\ cp[p].profName \in DOMAIN profCache'
                   /\ profCache'[cp[p].profName] = rid[p]
                   /\ \A n \in DOMAIN profCache' \ {cp[p].profName} :
                          n \in DOMAIN profCache /\ profCache'[n] = profCache[n]
                   /\ (HasCleared(q) /\ rid[q] > rid[p]) =>
                          IF query[q].pn = Empty
                          THEN DOMAIN profCache' = {cp[p].profName}
                          ELSE query[q].pn \in DOMAIN profCache'
                                   => query[q].pn = cp[p].profName]_vars

\* a genprof request was being served when a clear-all came in and ran; the
\* capture has succeeded after it, and its profile is the one entry of the
\* cache
C24_Witness ==
    \E p \in Procs : \E q \in Procs \ {p} :
        /\ kind[p] = "genprof"
        /\ pc[p] = "cp_defer"
        /\ ret[p].err = NoErr
        /\ HasCleared(q)
        /\ query[q].pn = Empty
        /\ rid[q] > rid[p]
        /\ DOMAIN profCache = {ret[p].name}
        /\ profCache[ret[p].name] = rid[p]
====
